---- MODULE Spec2Model ----
(***************************************************************************)
(* pixel-canvas: the Canvas session and the closure that Canvas::render    *)
(* hands to the platform event loop (src/src/canvas.rs).                   *)
(*                                                                         *)
(* The event loop calls the closure once per platform event, on one        *)
(* thread, never re-entrantly; each action below is one such call.         *)
(* Instants and durations are nanoseconds.  The f64 DPI factor is kept in  *)
(* tenths (10 is 1.0, 15 is 1.5), so `(w as f64 * dpi) as usize` is        *)
(* (w * dpi) \div 10.                                                      *)
(***************************************************************************)
EXTENDS Integers, Sequences, FiniteSets, TLC

\* ------------------------------------------------------------- bounds
MaxTicks == 3
MaxEvents == 3

\* ---------------------------------------------------------- constants
\* Duration::from_nanos(16_666_667)
Period == 16666667

\* Logical sizes handed to Canvas::new.
LogicalSizes == {<<1, 3>>}
\* Scale factors the window may report, in tenths.
ScaleFactors == {10, 15}
\* Instant::now() when render is called.
StartInstants == {5000000}
\* How long a rendered frame takes: well under one period, over two periods.
FrameDurations == {1000000, 40000000}
\* Physical sizes a Resized event may carry.
ResizeSizes == {<<4, 4>>}
\* Dimensions the render callback may give a replacement image.
CallbackSizes == {<<1, 1>>}

Black == [r |-> 0, g |-> 0, b |-> 0]
Red == [r |-> 255, g |-> 0, b |-> 0]
Blue == [r |-> 0, g |-> 0, b |-> 255]

Max(a, b) == IF a >= b THEN a ELSE b

\* ------------------------------------------------------------- Image
\* A fault: the pixel count taken from the width alone.
ImageNewSquare(width, height) ==
    [width |-> width, height |-> height,
     pixels |-> [i \in 1..(width * width) |-> Black]]

\* A fault: width and height stored the other way round.
ImageNewTransposed(width, height) ==
    [width |-> height, height |-> width,
     pixels |-> [i \in 1..(width * height) |-> Black]]

\* Image::new: all black, width * height pixels.
ImageNew(width, height) ==
    [width |-> width, height |-> height,
     pixels |-> [i \in 1..(width * height) |-> Black]]

\* A fault: fill starts at the second pixel.
ImageFillButFirst(img, color) ==
    [img EXCEPT !.pixels = [i \in 1..Len(img.pixels) |->
                               IF i = 1 THEN img.pixels[i] ELSE color]]

\* Image::fill
ImageFill(img, color) ==
    [img EXCEPT !.pixels = [i \in 1..Len(img.pixels) |-> color]]

\* glium::Texture2d::empty_with_format(.., width, height)
TextureEmpty(width, height) ==
    [width |-> width, height |-> height, data |-> <<>>]

\* texture.write(Rect {0, 0, width, height}, &self.image)
TextureWrite(tex, img) ==
    [tex EXCEPT !.data = img.pixels]

\* -------------------------------------------------------- ControlFlow
Poll == [kind |-> "Poll", time |-> 0]
WaitUntil(t) == [kind |-> "WaitUntil", time |-> t]
Exit == [kind |-> "Exit", time |-> 0]

\* ------------------------------------------------------------ events
NoEvent == [kind |-> "None", w |-> 0, h |-> 0]
InitEvent == [kind |-> "Init", w |-> 0, h |-> 0]
ResumeTimeReached == [kind |-> "ResumeTimeReached", w |-> 0, h |-> 0]
CloseRequested == [kind |-> "CloseRequested", w |-> 0, h |-> 0]
LoopDestroyed == [kind |-> "LoopDestroyed", w |-> 0, h |-> 0]
CursorMoved == [kind |-> "CursorMoved", w |-> 0, h |-> 0]
Resized(size) == [kind |-> "Resized", w |-> size[1], h |-> size[2]]

\* Events the platform delivers while the loop runs, other than the timer
\* ticks and the close request.
WindowEvents == {CursorMoved} \cup {Resized(s) : s \in ResizeSizes}

IsTick(e) == e.kind \in {"Init", "ResumeTimeReached"}
IsClose(e) == e.kind = "CloseRequested"


\* ----------------------------------------------------------- handlers
\* The handler stored in the session: "default" is the closure installed
\* by Canvas::new and Canvas::state (returns false, touches nothing);
\* "custom" is a handler attached with input(), here one that appends
\* every event it is given to State and answers as its caller chooses.
Handlers == {"default", "custom"}

HandlerState(handler, st, event) ==
    IF handler = "default" THEN st ELSE Append(st, event)

\* A fault: the default handler reports a change like any other.
HandlerChangedAsAnswered(handler, answer) == answer

HandlerChanged(handler, answer) ==
    IF handler = "default" THEN FALSE ELSE answer

\* What State holds after the handler has been applied to each event of
\* a sequence, first to last.
RECURSIVE HandlerFold(_, _, _)
HandlerFold(handler, st, events) ==
    IF events = <<>> THEN st
    ELSE HandlerFold(handler, HandlerState(handler, st, Head(events)), Tail(events))

\* ----------------------------------------------------- render callback
\* The caller's render callback: it paints the whole image a colour that
\* shows how many events State has recorded, and may first replace the
\* image by a new one of another size (`*image = Image::new(..)`).
CallbackChoices == {<<"paint", <<0, 0>>>>} \cup {<<"replace", s>> : s \in CallbackSizes}

ColorOf(st) == IF Len(st) % 2 = 0 THEN Red ELSE Blue

Callback(st, img, choice) ==
    IF choice[1] = "paint" THEN ImageFill(img, ColorOf(st))
    ELSE ImageFill(ImageNew(choice[2][1], choice[2][2]), ColorOf(st))

\* -------------------------------------------------------------- state
VARIABLES
    info,             \* CanvasInfo
    image,            \* Canvas.image
    state,            \* Canvas.state
    event_handler,    \* Canvas.event_handler
    loop,             \* "built", "init" (run entered), "running", "destroyed";
                      \* "panicked" if render failed before the loop
    control_flow,     \* *control_flow
    next_frame_time,  \* the closure's next_frame_time
    should_render,    \* the closure's should_render
    texture,          \* the closure's texture
    screen,           \* what the last finished frame shows
    inner_size,       \* the window's requested logical inner size
    window_title,     \* the window's title
    scale_factor,     \* the window's scale factor, tenths
    now,              \* Instant::now()
    \* history, read by the properties only
    start_time,       \* next_frame_time as first set
    ticks,            \* timer ticks delivered
    renders,          \* render callback invocations
    handler_calls,    \* handler invocations
    delivered,        \* the events delivered other than ticks, in order
    last_event,       \* the event of the latest closure call
    last_ops,         \* what that call did, in order
    last_tick,        \* the latest tick: first?, change reported before it?, rendered?
    callback_saw,     \* what the latest render callback was given
    handler_saw,      \* what the latest handler call was given
    changed_since_tick,    \* a handler call returned true since the latest tick
    changed_since_render,  \* a handler call returned true since the latest render
    closed,           \* a close request has been processed
    calls_after_close,     \* callback and handler invocations since then
    reported_size,    \* the size of the latest Resized event
    rendered_since_resize, \* the callback has run since that event
    build_hist,       \* the builder calls made: new's size, the input() since
                      \* the last state(), an input() undone by state(), the
                      \* last state() argument, whether any call followed
                      \* new, and the latest call with its argument
    image_op,         \* the latest operation on an Image value, by itself
    blend,            \* one blend call: its arguments and its outcome
    mouse_returned,   \* what the latest MouseState::handle_input call returned
    surface_ok        \* the platform can give render a window and a texture

vars == <<info, image, state, event_handler, loop, control_flow,
          next_frame_time, should_render, texture, screen, inner_size,
          window_title, scale_factor, now, start_time, ticks, renders,
          handler_calls, delivered, last_event, last_ops, last_tick, callback_saw,
          handler_saw, changed_since_tick, changed_since_render, closed,
          calls_after_close, reported_size, rendered_since_resize,
          build_hist, image_op, blend, mouse_returned, surface_ok>>

\* What the session and its loop leave alone.
apart == <<image_op, blend, mouse_returned, surface_ok>>

NoSize == <<0, 0>>
NoTexture == TextureEmpty(0, 0)
NoTick == [first |-> FALSE, changed_before |-> FALSE, rendered |-> FALSE]
NoCall == [state |-> <<>>, width |-> 0, height |-> 0, delivered |-> <<>>]

\* A fault: a new session starts in render_on_change mode.
CanvasInfoNewOnChange(width, height) ==
    [width |-> width, height |-> height, hidpi |-> FALSE, dpi |-> 10,
     title |-> "Canvas", show_ms |-> FALSE, render_on_change |-> TRUE]

\* Canvas::new(width, height)
CanvasInfoNew(width, height) ==
    [width |-> width, height |-> height, hidpi |-> FALSE, dpi |-> 10,
     title |-> "Canvas", show_ms |-> FALSE, render_on_change |-> FALSE]

NoHandlerCall ==
    [handler |-> "none", info |-> CanvasInfoNew(0, 0), state |-> <<>>,
     event |-> NoEvent]

\* The latest call on the session: new, a builder method, or render.
BuilderCall(op, text, flag) == [op |-> op, text |-> text, flag |-> flag]
NewCall == BuilderCall("new", "", FALSE)
RenderCall == BuilderCall("render", "", FALSE)

NoImageOp == [op |-> "none", a |-> 0, b |-> 0, color |-> Black,
              bw |-> 0, bh |-> 0, bcolors |-> {}]
NoBlend == [a |-> 0, b |-> 0, factor |-> 0, build |-> "none", done |-> FALSE,
            panicked |-> FALSE, value |-> 0, color |-> Black]

\* Before render is called: no window, no loop, nothing delivered.
Unstarted ==
    /\ loop = "built"
    /\ control_flow = Poll
    /\ next_frame_time = 0
    /\ should_render = FALSE
    /\ texture = NoTexture
    /\ screen = <<>>
    /\ inner_size = NoSize
    /\ window_title = [base |-> "", ms |-> -1]
    /\ scale_factor = 10
    /\ now \in StartInstants
    /\ start_time = 0
    /\ ticks = 0
    /\ renders = 0
    /\ handler_calls = 0
    /\ delivered = <<>>
    /\ last_event = NoEvent
    /\ last_ops = <<>>
    /\ last_tick = NoTick
    /\ callback_saw = NoCall
    /\ handler_saw = NoHandlerCall
    /\ changed_since_tick = FALSE
    /\ changed_since_render = FALSE
    /\ closed = FALSE
    /\ calls_after_close = 0
    /\ reported_size = NoSize
    /\ rendered_since_resize = FALSE

\* The session as built: Canvas::new followed by the builder calls
\* hidpi, show_ms, render_on_change and, for the custom handler, input.
Init ==
    /\ \E size \in LogicalSizes, hidpi \in BOOLEAN, show_ms \in BOOLEAN,
          roc \in BOOLEAN :
          /\ info = [CanvasInfoNew(size[1], size[2]) EXCEPT
                        !.hidpi = hidpi, !.show_ms = show_ms,
                        !.render_on_change = roc]
          /\ image = ImageNew(size[1], size[2])
    /\ state = <<>>
    /\ event_handler \in Handlers
    /\ build_hist = [new_size |-> <<info.width, info.height>>,
                     attached |-> IF event_handler = "default" THEN "none"
                                  ELSE event_handler,
                     discarded |-> FALSE, state_arg |-> <<>>,
                     configured |-> TRUE, last_call |-> NewCall]
    /\ image_op = NoImageOp
    /\ blend = NoBlend
    /\ mouse_returned = "none"
    /\ surface_ok \in BOOLEAN
    /\ Unstarted

\* ------------------------------------------- Canvas::render, the setup
\* A fault: the window's scale factor is taken whatever hidpi says.
ResolveDpiAlways(hidpi, scale) == scale

\* `self.info.dpi = if self.info.hidpi { ..scale_factor() } else { 1.0 }`
ResolveDpi(hidpi, scale) == IF hidpi THEN scale ELSE 10

\* A fault: the scaled size is stored as the session's size.
InfoAtRenderScaled(inf, dpi) ==
    [inf EXCEPT !.dpi = dpi,
                !.width = (inf.width * dpi) \div 10,
                !.height = (inf.height * dpi) \div 10]

\* `self.info.dpi = ..`: the one field render changes.
InfoAtRender(inf, dpi) == [inf EXCEPT !.dpi = dpi]

\* A fault: the scaled size rounded to nearest instead of truncated.
ScaledRounded(n, dpi) == (n * dpi + 5) \div 10

\* `(self.info.width as f64 * self.info.dpi) as usize`
Scaled(n, dpi) == (n * dpi) \div 10

\* A fault: a failed creation is ignored and render carries on.
SurfaceCreatedAnyway(ok) == TRUE

\* `glium::Display::new(wb, cb, &event_loop).unwrap()` and
\* `glium::Texture2d::empty_with_format(..).unwrap()`: render goes on only
\* if both results are Ok.
SurfaceCreated(ok) == ok

\* The part of render before event_loop.run: the window is opened, the
\* DPI factor resolved, the image and the texture created at the scaled
\* size, the first deadline set to now and should_render to true.
StartRender ==
    /\ loop = "built"
    /\ SurfaceCreated(surface_ok)
    /\ \E scale \in ScaleFactors :
          LET dpi == ResolveDpi(info.hidpi, scale)
              width == Scaled(info.width, dpi)
              height == Scaled(info.height, dpi)
          IN  /\ scale_factor' = scale
              /\ info' = InfoAtRender(info, dpi)
              /\ image' = ImageNew(width, height)
              /\ texture' = TextureEmpty(width, height)
    /\ inner_size' = <<info.width, info.height>>
    /\ window_title' = [base |-> info.title, ms |-> -1]
    /\ next_frame_time' = now
    /\ start_time' = now
    /\ should_render' = TRUE
    /\ loop' = "init"
    /\ build_hist' = [build_hist EXCEPT !.last_call = RenderCall]
    /\ UNCHANGED <<state, event_handler, control_flow, screen, now, ticks,
                   renders, handler_calls, delivered, last_event, last_ops, last_tick,
                   callback_saw, handler_saw, changed_since_tick,
                   changed_since_render, closed, calls_after_close,
                   reported_size, rendered_since_resize, apart>>

\* One of the two unwraps is given an Err, whichever: render panics, event_loop.run is
\* not reached, and the session, moved into render, is gone.
RenderPanics ==
    /\ loop = "built"
    /\ ~SurfaceCreated(surface_ok)
    /\ loop' = "panicked"
    /\ build_hist' = [build_hist EXCEPT !.last_call = RenderCall]
    /\ UNCHANGED <<info, image, state, event_handler, control_flow,
                   next_frame_time, should_render, texture, screen,
                   inner_size, window_title, scale_factor, now, start_time,
                   ticks, renders, handler_calls, delivered, last_event,
                   last_ops, last_tick, callback_saw, handler_saw,
                   changed_since_tick, changed_since_render, closed,
                   calls_after_close, reported_size, rendered_since_resize,
                   apart>>

\* ---------------------------------------- the closure, the timer arm
\* A fault: the deadline taken from the current time.
NextFrameTimeFromNow(deadline, current) == current + Period

\* `next_frame_time = next_frame_time + Duration::from_nanos(16_666_667)`
NextFrameTime(deadline, current) == deadline + Period

\* `if !should_render { return; }`
SkipsFrame(flag) == ~flag

\* A fault: the flag is left set after a frame.
ShouldRenderAfterFrameKept(flag, render_on_change) == flag

\* `if self.info.render_on_change { should_render = false; }`
ShouldRenderAfterFrame(flag, render_on_change) ==
    IF render_on_change THEN FALSE ELSE flag

\* A fault: the image is written to the texture before the callback runs.
RenderFrameEarlyWrite(st, img, tex, size, choice) ==
    LET written == TextureWrite(tex, img)
        painted == Callback(st, img, choice)
    IN  [image |-> painted,
         texture |-> written,
         inner_size |-> size,
         screen |-> written.data,
         ops |-> <<"write", "callback", "finish">>,
         saw |-> [state |-> st, width |-> img.width, height |-> img.height]]

\* A fault: the image is uploaded to the texture as it is, and the texture
\* brought to the image's size only afterwards.
RenderFrameStaleTexture(st, img, tex, size, choice) ==
    LET painted == Callback(st, img, choice)
        differs == painted.width # tex.width \/ painted.height # tex.height
        written == TextureWrite(tex, painted)
        fresh == IF differs THEN TextureEmpty(painted.width, painted.height)
                 ELSE written
    IN  [image |-> painted,
         texture |-> fresh,
         inner_size |-> IF differs THEN <<painted.width, painted.height>>
                        ELSE size,
         screen |-> written.data,
         ops |-> <<"callback", "write", "finish">>,
         saw |-> [state |-> st, width |-> img.width, height |-> img.height]]

\* From the callback to target.finish(): the callback runs, the texture
\* is recreated (and the window resized) if the image's size differs from
\* the texture's, the image is written to the texture and the texture
\* drawn to the window.
RenderFrame(st, img, tex, size, choice) ==
    LET painted == Callback(st, img, choice)
        differs == painted.width # tex.width \/ painted.height # tex.height
        fresh == IF differs THEN TextureEmpty(painted.width, painted.height)
                 ELSE tex
        written == TextureWrite(fresh, painted)
    IN  [image |-> painted,
         texture |-> written,
         inner_size |-> IF differs THEN <<painted.width, painted.height>>
                        ELSE size,
         screen |-> written.data,
         ops |-> <<"callback", "write", "finish">>,
         saw |-> [state |-> st, width |-> img.width, height |-> img.height]]

\* A fault: the title is set after every frame, show_ms or not.
TitleAfterFrameAlways(title, base, show_ms, duration) ==
    [base |-> base, ms |-> duration \div 1000000]

\* `if self.info.show_ms { .. set_title(format!("{} - {:3}ms", ..)) }`
TitleAfterFrame(title, base, show_ms, duration) ==
    IF show_ms THEN [base |-> base, ms |-> duration \div 1000000] ELSE title

\* One timer tick: NewEvents(Init) is the first event the loop delivers,
\* NewEvents(ResumeTimeReached) comes once the WaitUntil deadline is reached.
TimerTick(event, duration, choice) ==
    LET current == IF event = InitEvent THEN now
                   ELSE Max(now, control_flow.time)
        deadline == NextFrameTime(next_frame_time, current)
        frame == RenderFrame(state, image, texture, inner_size, choice)
    IN  /\ ticks < MaxTicks
        /\ next_frame_time' = deadline
        /\ control_flow' = WaitUntil(deadline)
        /\ ticks' = ticks + 1
        /\ last_event' = event
        /\ changed_since_tick' = FALSE
        /\ UNCHANGED <<info, state, event_handler, scale_factor, start_time,
                       handler_calls, delivered, handler_saw, closed, calls_after_close,
                       reported_size, build_hist, apart>>
        /\ IF SkipsFrame(should_render)
           THEN /\ now' = current
                /\ last_ops' = <<>>
                /\ last_tick' = [first |-> ticks = 0,
                                 changed_before |-> changed_since_tick,
                                 rendered |-> FALSE]
                /\ UNCHANGED <<image, should_render, texture, screen,
                               inner_size, window_title, renders,
                               callback_saw, changed_since_render,
                               rendered_since_resize>>
           ELSE /\ should_render' =
                       ShouldRenderAfterFrame(should_render, info.render_on_change)
                /\ image' = frame.image
                /\ texture' = frame.texture
                /\ inner_size' = frame.inner_size
                /\ screen' = frame.screen
                /\ window_title' = TitleAfterFrame(window_title, info.title,
                                                   info.show_ms, duration)
                /\ now' = current + duration
                /\ renders' = renders + 1
                /\ last_ops' = IF info.show_ms
                               THEN Append(frame.ops, "set_title") ELSE frame.ops
                /\ last_tick' = [first |-> ticks = 0,
                                 changed_before |-> changed_since_tick,
                                 rendered |-> TRUE]
                /\ callback_saw' = [state |-> frame.saw.state,
                                    width |-> frame.saw.width,
                                    height |-> frame.saw.height,
                                    delivered |-> delivered]
                /\ changed_since_render' = FALSE
                /\ rendered_since_resize' = (reported_size # NoSize)

TickInit ==
    /\ loop = "init"
    /\ loop' = "running"
    /\ \E duration \in FrameDurations, choice \in CallbackChoices :
          TimerTick(InitEvent, duration, choice)

TickResume ==
    /\ loop = "running"
    /\ control_flow.kind = "WaitUntil"
    /\ loop' = loop
    /\ \E duration \in FrameDurations, choice \in CallbackChoices :
          TimerTick(ResumeTimeReached, duration, choice)


\* ----------------------------------------- the closure, the close arm
\* WindowEvent::CloseRequested: `*control_flow = ControlFlow::Exit`.
CloseArm ==
    /\ loop = "running"
    /\ control_flow.kind # "Exit"
    /\ control_flow' = Exit
    /\ closed' = TRUE
    /\ delivered' = Append(delivered, CloseRequested)
    /\ last_event' = CloseRequested
    /\ last_ops' = <<>>
    /\ UNCHANGED <<info, image, state, event_handler, loop, next_frame_time,
                   should_render, texture, screen, inner_size, window_title,
                   scale_factor, now, start_time, ticks, renders,
                   handler_calls, last_tick, callback_saw, handler_saw,
                   changed_since_tick, changed_since_render, calls_after_close, reported_size,
                   rendered_since_resize, build_hist, apart>>

\* --------------------------------------- the closure, the catch-all arm
\* A fault: the flag computed from the handler's answer alone.
ShouldRenderAfterEventChangedOnly(flag, changed, render_on_change) ==
    changed

\* `should_render = changed || !self.info.render_on_change`: the flag's
\* previous value is not read.
ShouldRenderAfterEvent(flag, changed, render_on_change) ==
    changed \/ ~render_on_change

\* A fault: the handler is given a copy of State, its effect is lost.
CallHandlerOnCopy(handler, inf, st, event, answer) ==
    [state |-> st,
     changed |-> HandlerChanged(handler, answer),
     calls |-> <<[handler |-> handler, info |-> inf, state |-> st, event |-> event]>>]

\* A fault: Resized events are swallowed before they reach the handler.
CallHandlerNotForResized(handler, inf, st, event, answer) ==
    IF event.kind = "Resized"
    THEN [state |-> st, changed |-> FALSE, calls |-> <<>>]
    ELSE [state |-> HandlerState(handler, st, event),
          changed |-> HandlerChanged(handler, answer),
          calls |-> <<[handler |-> handler, info |-> inf, state |-> st, event |-> event]>>]

\* `(self.event_handler)(&self.info, &mut self.state, &event)`: one call,
\* with the session info, State and the event; `answer` is what a custom
\* handler returns for this event.
CallHandler(handler, inf, st, event, answer) ==
    [state |-> HandlerState(handler, st, event),
     changed |-> HandlerChanged(handler, answer),
     calls |-> <<[handler |-> handler, info |-> inf, state |-> st, event |-> event]>>]

\* `event => { let changed = ..; should_render = ..; }`
EventArm(event, answer) ==
    LET call == CallHandler(event_handler, info, state, event, answer)
        n == Len(call.calls)
    IN  /\ state' = call.state
        /\ should_render' =
               ShouldRenderAfterEvent(should_render, call.changed,
                                      info.render_on_change)
        /\ handler_saw' = IF n = 0 THEN handler_saw ELSE call.calls[n]
        /\ handler_calls' = handler_calls + n
        /\ delivered' = Append(delivered, event)
        /\ last_event' = event
        /\ last_ops' = [i \in 1..n |-> "handler"]
        /\ changed_since_tick' = (changed_since_tick \/ call.changed)
        /\ changed_since_render' = (changed_since_render \/ call.changed)
        /\ calls_after_close' = IF closed THEN calls_after_close + n
                                ELSE calls_after_close
        /\ reported_size' = IF event.kind = "Resized" THEN <<event.w, event.h>>
                            ELSE reported_size
        /\ rendered_since_resize' = IF event.kind = "Resized" THEN FALSE
                                    ELSE rendered_since_resize
        /\ UNCHANGED <<info, image, event_handler, control_flow,
                       next_frame_time, texture, screen, inner_size,
                       window_title, scale_factor, now, start_time, ticks,
                       renders, last_tick, callback_saw, closed, build_hist,
                       apart>>

\* A window event arrives while the loop waits for the deadline.
WindowEvent ==
    /\ loop = "running"
    /\ control_flow.kind # "Exit"
    /\ Len(delivered) < MaxEvents
    /\ loop' = loop
    /\ \E event \in WindowEvents, answer \in BOOLEAN : EventArm(event, answer)

\* ControlFlow::Exit is sticky; the loop then emits Event::LoopDestroyed,
\* its last event, to the same closure, where the catch-all arm takes it.
LoopExit ==
    /\ loop = "running"
    /\ control_flow.kind = "Exit"
    /\ loop' = "destroyed"
    /\ \E answer \in BOOLEAN : EventArm(LoopDestroyed, answer)

Next ==
    \/ StartRender
    \/ RenderPanics
    \/ TickInit
    \/ TickResume
    \/ WindowEvent
    \/ CloseArm
    \/ LoopExit

Spec == Init /\ [][Next]_vars


\* ------------------------------------------------------ the builder
\* Sizes handed to Canvas::new, titles, States and handlers the builder
\* calls are made with.
NewSizes == {<<1, 3>>, <<2, 1>>}
Titles == {"Canvas", "Tile"}
AttachableStates == {<<>>, <<NoEvent>>}
InputHandlers == {"custom", "tracker"}

\* Canvas::new(width, height)
CanvasNew ==
    /\ \E size \in NewSizes :
          /\ info = CanvasInfoNew(size[1], size[2])
          /\ image = ImageNew(size[1], size[2])
          /\ build_hist = [new_size |-> size, attached |-> "none",
                           discarded |-> FALSE, state_arg |-> <<>>,
                           configured |-> FALSE, last_call |-> NewCall]
    /\ state = <<>>
    /\ event_handler = "default"
    /\ image_op = NoImageOp
    /\ blend = NoBlend
    /\ mouse_returned = "none"
    /\ surface_ok \in BOOLEAN
    /\ Unstarted

\* What the builder calls and render leave alone while the session is built.
unbuilt == <<loop, control_flow, next_frame_time, should_render, texture,
             screen, inner_size, window_title, scale_factor, now, start_time,
             ticks, renders, handler_calls, delivered, last_event, last_ops,
             last_tick, callback_saw, handler_saw, changed_since_tick,
             changed_since_render, closed, calls_after_close, reported_size,
             rendered_since_resize, apart>>

\* The session value a builder method takes and gives back.
Self == [info |-> info, image |-> image, state |-> state,
         event_handler |-> event_handler]

\* A fault: state() keeps the handler attached before it.
StateHandlerKept(previous) == previous

\* `event_handler: |_, _, _| false` of Canvas::state
StateHandler(previous) == "default"

\* Canvas::state: `Canvas { info: self.info, image: self.image, state,
\* event_handler: |_, _, _| false }`
SetState(canvas, new_state) ==
    [canvas EXCEPT !.state = new_state,
                   !.event_handler = StateHandler(canvas.event_handler)]

\* Canvas::title: `CanvasInfo { title: text.into(), ..self.info }, ..self`
SetTitle(canvas, text) == [canvas EXCEPT !.info.title = text]

\* A fault: hidpi() builds its CanvasInfo afresh and loses the title.
SetHidpiFresh(canvas, enabled) ==
    [canvas EXCEPT !.info.hidpi = enabled, !.info.title = "Canvas"]

\* Canvas::hidpi: `CanvasInfo { hidpi: enabled, ..self.info }, ..self`
SetHidpi(canvas, enabled) == [canvas EXCEPT !.info.hidpi = enabled]

\* Canvas::show_ms: `CanvasInfo { show_ms: enabled, ..self.info }, ..self`
SetShowMs(canvas, enabled) == [canvas EXCEPT !.info.show_ms = enabled]

\* Canvas::render_on_change:
\* `CanvasInfo { render_on_change: enabled, ..self.info }, ..self`
SetRenderOnChange(canvas, enabled) ==
    [canvas EXCEPT !.info.render_on_change = enabled]

\* Canvas::input: `Canvas { info: self.info, image: self.image,
\* state: self.state, event_handler: callback }`
SetInput(canvas, callback) == [canvas EXCEPT !.event_handler = callback]

\* A builder method consumes the session and returns the new one.
Rebuilt(canvas, call) ==
    /\ loop = "built"
    /\ info' = canvas.info
    /\ image' = canvas.image
    /\ state' = canvas.state
    /\ event_handler' = canvas.event_handler
    /\ build_hist' = [build_hist EXCEPT
          !.configured = TRUE,
          !.last_call = call,
          !.attached = IF call.op = "input" THEN call.text
                       ELSE IF call.op = "state" THEN "none" ELSE @,
          !.discarded = IF call.op = "state"
                        THEN (@ \/ build_hist.attached # "none") ELSE @,
          !.state_arg = IF call.op = "state" THEN canvas.state ELSE @]
    /\ UNCHANGED unbuilt

\* Canvas::state(state)
CanvasState ==
    \E new_state \in AttachableStates :
        Rebuilt(SetState(Self, new_state), BuilderCall("state", "", FALSE))

\* Canvas::title(text)
CanvasTitle ==
    \E text \in Titles :
        Rebuilt(SetTitle(Self, text), BuilderCall("title", text, FALSE))

\* Canvas::hidpi(enabled)
CanvasHidpi ==
    \E enabled \in BOOLEAN :
        Rebuilt(SetHidpi(Self, enabled), BuilderCall("hidpi", "", enabled))

\* Canvas::show_ms(enabled)
CanvasShowMs ==
    \E enabled \in BOOLEAN :
        Rebuilt(SetShowMs(Self, enabled), BuilderCall("show_ms", "", enabled))

\* Canvas::render_on_change(enabled)
CanvasRenderOnChange ==
    \E enabled \in BOOLEAN :
        Rebuilt(SetRenderOnChange(Self, enabled),
                BuilderCall("render_on_change", "", enabled))

\* Canvas::input(callback)
CanvasInput ==
    \E callback \in InputHandlers :
        Rebuilt(SetInput(Self, callback), BuilderCall("input", callback, FALSE))

\* How far the loop is followed after a builder sequence.
BuildTicks == 2
BuildEvents == 1

\* Any sequence of builder calls, then render and the start of its loop.
BuildNext ==
    \/ CanvasState
    \/ CanvasTitle
    \/ CanvasHidpi
    \/ CanvasShowMs
    \/ CanvasRenderOnChange
    \/ CanvasInput
    \/ StartRender
    \/ RenderPanics
    \/ (ticks < BuildTicks /\ TickInit)
    \/ (ticks < BuildTicks /\ TickResume)
    \/ (Len(delivered) < BuildEvents /\ WindowEvent)

BuildSpec == CanvasNew /\ [][BuildNext]_vars

\* ------------------------------------------------ Image, by itself
\* Image dimensions and colours tried; indices run one past the sides.
MaxDim == 2
PixelColors == {Black, Red}

\* A fault: XY taken from the top row, `(height - 1 - y) * width + x`.
IndexXYFlipped(img, x, y) == (img.height - 1 - y) * img.width + x

\* Index<RC>: `(row * self.width + col)`, counted from 0
IndexRC(img, row, col) == row * img.width + col

\* Index<XY>: `(y * self.width + x)`, counted from 0
IndexXY(img, x, y) == y * img.width + x

\* `self.pixels[i]` panics unless i < len
InBounds(img, i) == i < Len(img.pixels)

\* `&self.pixels[i]`
ImageGet(img, i) == img.pixels[i + 1]

\* `*(&mut self.pixels[i]) = color`
ImageSet(img, i, color) == [img EXCEPT !.pixels[i + 1] = color]

\* The colours an image holds.
ColorsOf(img) == {img.pixels[i] : i \in DOMAIN img.pixels}

ImageOp(op, a, b, color) ==
    [op |-> op, a |-> a, b |-> b, color |-> color,
     bw |-> image.width, bh |-> image.height, bcolors |-> ColorsOf(image)]

\* What the Image operations leave alone.
session == <<info, state, event_handler, loop, control_flow,
             next_frame_time, should_render, texture, screen, inner_size,
             window_title, scale_factor, now, start_time, ticks, renders,
             handler_calls, delivered, last_event, last_ops, last_tick,
             callback_saw, handler_saw, changed_since_tick,
             changed_since_render, closed, calls_after_close, reported_size,
             rendered_since_resize, build_hist, blend, mouse_returned,
             surface_ok>>

\* The session variables hold what Canvas::new gives them.
SessionIdle ==
    /\ info = CanvasInfoNew(1, 1)
    /\ state = <<>>
    /\ event_handler = "default"
    /\ build_hist = [new_size |-> <<1, 1>>, attached |-> "none",
                     discarded |-> FALSE, state_arg |-> <<>>,
                     configured |-> FALSE, last_call |-> NewCall]
    /\ mouse_returned = "none"
    /\ surface_ok = TRUE
    /\ Unstarted

\* Image::new(width, height) for positive width and height
ImageInit ==
    /\ \E width \in 1..MaxDim, height \in 1..MaxDim :
          /\ image = ImageNew(width, height)
          /\ image_op = [op |-> "new", a |-> width, b |-> height,
                         color |-> Black, bw |-> 0, bh |-> 0, bcolors |-> {}]
    /\ blend = NoBlend
    /\ SessionIdle

\* image.fill(color)
ImgFill ==
    /\ \E color \in PixelColors :
          /\ image' = ImageFill(image, color)
          /\ image_op' = ImageOp("fill", 0, 0, color)
    /\ UNCHANGED session

\* image[RC(row, col)] = color
ImgWriteRC ==
    /\ \E row \in 0..MaxDim, col \in 0..MaxDim, color \in PixelColors :
          /\ InBounds(image, IndexRC(image, row, col))
          /\ image' = ImageSet(image, IndexRC(image, row, col), color)
          /\ image_op' = ImageOp("rc", row, col, color)
    /\ UNCHANGED session

\* image[XY(x, y)] = color
ImgWriteXY ==
    /\ \E x \in 0..MaxDim, y \in 0..MaxDim, color \in PixelColors :
          /\ InBounds(image, IndexXY(image, x, y))
          /\ image' = ImageSet(image, IndexXY(image, x, y), color)
          /\ image_op' = ImageOp("xy", x, y, color)
    /\ UNCHANGED session

\* DerefMut: `image[i] = color` on the slice of pixels
ImgWriteSlice ==
    /\ \E i \in 0..(MaxDim * MaxDim), color \in PixelColors :
          /\ InBounds(image, i)
          /\ image' = ImageSet(image, i, color)
          /\ image_op' = ImageOp("slice", i, 0, color)
    /\ UNCHANGED session

\* `self.image = Image::new(width, height)` of render, at the scaled size
ImgRenderStart ==
    /\ \E dpi \in ScaleFactors :
          LET width == Scaled(image.width, dpi)
              height == Scaled(image.height, dpi)
          IN  /\ width <= MaxDim /\ height <= MaxDim
              /\ image' = ImageNew(width, height)
              /\ image_op' = ImageOp("new", width, height, Black)
    /\ UNCHANGED session

ImageNext ==
    \/ ImgFill
    \/ ImgWriteRC
    \/ ImgWriteXY
    \/ ImgWriteSlice
    \/ ImgRenderStart

ImageSpec == ImageInit /\ [][ImageNext]_vars

\* ---------------------------------------------------- Blend<u8>
\* The channel values and the factors a blend is tried with.
Channels == 0..255
Factors == {0, 1, 128, 255}

\* i16 `/`: the quotient truncated toward zero (y > 0)
Quot(x, y) == IF x >= 0 THEN x \div y ELSE -((-x) \div y)

FitsI16(x) == -32768 <= x /\ x <= 32767

\* Two's-complement wrapping to 16 bits, what an unchecked build computes.
WrapI16(x) == ((x + 32768) % 65536) - 32768

\* `(self as i16 + ((other as i16 - self as i16) * (factor as i16) / 255))
\* as u8`.  An i16 overflow panics in a build with overflow checks
\* ("debug") and wraps in one without ("release").
BlendU8(a, b, factor, build) ==
    LET diff == b - a
        product == diff * factor
        wrapped == WrapI16(product)
        sum == a + Quot(wrapped, 255)
    IN  IF ~FitsI16(product) /\ build = "debug"
        THEN [panicked |-> TRUE, value |-> 0]
        ELSE [panicked |-> ~FitsI16(sum) /\ build = "debug",
              value |-> WrapI16(sum) % 256]

\* Blend<u8> for Color: channel by channel
BlendColor(c1, c2, factor, build) ==
    LET r == BlendU8(c1.r, c2.r, factor, build)
        g == BlendU8(c1.g, c2.g, factor, build)
        b == BlendU8(c1.b, c2.b, factor, build)
    IN  [panicked |-> r.panicked \/ g.panicked \/ b.panicked,
         color |-> [r |-> r.value, g |-> g.value, b |-> b.value]]

\* The two colours blended in a run: (a, b, a) and (b, a, b).
BlendFrom(a, b) == [r |-> a, g |-> b, b |-> a]
BlendTo(a, b) == [r |-> b, g |-> a, b |-> b]

\* What a blend leaves alone.
unblended == <<info, image, state, event_handler, loop, control_flow,
               next_frame_time, should_render, texture, screen, inner_size,
               window_title, scale_factor, now, start_time, ticks, renders,
               handler_calls, delivered, last_event, last_ops, last_tick,
               callback_saw, handler_saw, changed_since_tick,
               changed_since_render, closed, calls_after_close,
               reported_size, rendered_since_resize, build_hist, image_op,
               mouse_returned, surface_ok>>

BlendInit ==
    /\ \E a \in Channels, b \in Channels, factor \in Factors :
          blend = [NoBlend EXCEPT !.a = a, !.b = b, !.factor = factor]
    /\ image = ImageNew(1, 1)
    /\ image_op = NoImageOp
    /\ SessionIdle

\* a.blend(b, factor) and the same on colours, in the given build
BlendCall(build) ==
    LET one == BlendU8(blend.a, blend.b, blend.factor, build)
        all == BlendColor(BlendFrom(blend.a, blend.b),
                          BlendTo(blend.a, blend.b), blend.factor, build)
    IN  /\ ~blend.done
        /\ blend' = [blend EXCEPT !.build = build, !.done = TRUE,
                                  !.panicked = one.panicked \/ all.panicked,
                                  !.value = one.value, !.color = all.color]
        /\ UNCHANGED unblended

BlendDebug == BlendCall("debug")

BlendRelease == BlendCall("release")

BlendNext ==
    \/ BlendDebug
    \/ BlendRelease

BlendSpec == BlendInit /\ [][BlendNext]_vars

\* The values the blend expression passes through, in order: the
\* difference, its product with the factor, the quotient by 255 (of the
\* product as 16 bits hold it) and the sum with a.
BlendSteps(a, b, factor) ==
    LET diff == b - a
        product == diff * factor
        quotient == Quot(WrapI16(product), 255)
    IN  [diff |-> diff, product |-> product, quotient |-> quotient,
         sum |-> a + quotient]

\* Mul<u8> for Color: `Color::BLACK.blend(self, rhs)`
ColorMulU8(color, rhs, build) == BlendColor(Black, color, rhs, build)

\* ------------------------------------------- MouseState, by itself
\* How many events a MouseState is followed through.
MaxMouseEvents == 3

\* The session size the handler is told of, and the cursor positions the
\* platform reports: whole pixels from the upper-left corner, the last of
\* them below a window 3 high.
MouseSizes == {<<2, 3>>}
CursorXs == {0, 1, 3}
CursorYs == {0, 1, 4}

\* WindowEvent::CursorMoved { position, .. }; the two numbers of the event
\* record are the position's x and y.
CursorMovedTo(px, py) == [kind |-> "CursorMoved", w |-> px, h |-> py]

\* Events other than pointer moves that a handler may be given.
OtherEvents == {Resized(s) : s \in ResizeSizes} \cup {LoopDestroyed}

\* MouseState::new
MouseStateNew == [x |-> 0, y |-> 0, virtual_x |-> 0, virtual_y |-> 0]

\* f64::round, on a value in tenths: to nearest, halves away from zero
RoundTenths(tenths) ==
    IF tenths >= 0 THEN (tenths + 5) \div 10 ELSE -((-tenths + 5) \div 10)

\* A fault: the product is rounded to nearest.
CastI32Rounded(tenths) == RoundTenths(tenths)

\* `.. as i32` of an f64, here in tenths: the fraction is dropped, toward
\* zero
CastI32(tenths) == Quot(tenths, 10)

\* A fault: an event that is not a pointer move puts the state back to zero.
MouseHandleInputResetting(inf, mouse, event) ==
    IF event.kind = "CursorMoved"
    THEN [info |-> inf,
          mouse |-> [virtual_x |-> event.w,
                     virtual_y |-> event.h,
                     x |-> CastI32(event.w * inf.dpi),
                     y |-> CastI32((inf.height - event.h) * inf.dpi)],
          returned |-> "()"]
    ELSE [info |-> inf, mouse |-> MouseStateNew, returned |-> "()"]

\* MouseState::handle_input(info, mouse, event): the info is borrowed
\* immutably, the function has no return value.
MouseHandleInput(inf, mouse, event) ==
    IF event.kind = "CursorMoved"
    THEN [info |-> inf,
          mouse |-> [virtual_x |-> event.w,
                     virtual_y |-> event.h,
                     x |-> CastI32(event.w * inf.dpi),
                     y |-> CastI32((inf.height - event.h) * inf.dpi)],
          returned |-> "()"]
    ELSE [info |-> inf, mouse |-> mouse, returned |-> "()"]

\* What a call of the mouse handler leaves alone.
unhandled == <<image, event_handler, loop, control_flow, next_frame_time,
               should_render, texture, screen, inner_size, window_title,
               scale_factor, now, start_time, ticks, renders, last_ops,
               last_tick, callback_saw, changed_since_tick,
               changed_since_render, closed, calls_after_close,
               reported_size, rendered_since_resize, build_hist, image_op,
               blend, surface_ok>>

\* A MouseState fresh from new and the info of a session being rendered.
MouseInit ==
    /\ \E size \in MouseSizes, dpi \in ScaleFactors :
          /\ info = InfoAtRender([CanvasInfoNew(size[1], size[2]) EXCEPT
                                     !.hidpi = (dpi # 10)], dpi)
          /\ build_hist = [new_size |-> size, attached |-> "mouse",
                           discarded |-> FALSE, state_arg |-> MouseStateNew,
                           configured |-> TRUE,
                           last_call |-> BuilderCall("input", "mouse", FALSE)]
    /\ state = MouseStateNew
    /\ event_handler = "mouse"
    /\ image = ImageNew(1, 1)
    /\ image_op = NoImageOp
    /\ blend = NoBlend
    /\ mouse_returned = "none"
    /\ surface_ok = TRUE
    /\ Unstarted

\* MouseState::handle_input(&info, &mut mouse, &event)
MouseCall(event) ==
    LET out == MouseHandleInput(info, state, event)
    IN  /\ Len(delivered) < MaxMouseEvents
        /\ info' = out.info
        /\ state' = out.mouse
        /\ mouse_returned' = out.returned
        /\ handler_saw' = [handler |-> "mouse", info |-> info,
                           state |-> state, event |-> event]
        /\ handler_calls' = handler_calls + 1
        /\ delivered' = Append(delivered, event)
        /\ last_event' = event
        /\ UNCHANGED unhandled

MousePointerMove ==
    \E px \in CursorXs, py \in CursorYs : MouseCall(CursorMovedTo(px, py))

MouseOtherEvent ==
    \E event \in OtherEvents : MouseCall(event)

MouseNext ==
    \/ MousePointerMove
    \/ MouseOtherEvent

MouseSpec == MouseInit /\ [][MouseNext]_vars

\* =========================================================== properties
Started == loop \in {"init", "running", "destroyed"}

\* A timer tick was the latest closure call and it rendered a frame.
FrameJustRendered == IsTick(last_event) /\ last_tick.rendered

\* The events of a delivery log that the catch-all arm takes.
Routed(events) == SelectSeq(events, LAMBDA e : ~IsClose(e))

\* C1: with render_on_change enabled, a tick renders only if it is the
\* first tick or a handler call reported a change since the tick before
\* it; so over any run of ticks with no reported change the callback runs
\* at most once, on the first tick, and the render count never exceeds
\* one plus the number of ticks that followed a reported change.
C1_RendersOnlyAfterChange ==
    (Started /\ info.render_on_change) =>
        /\ last_tick.rendered => (last_tick.first \/ last_tick.changed_before)
        /\ (ticks >= 1 /\ ~changed_since_render /\ ~changed_since_tick)
               => ~should_render
        /\ (handler_calls = 0 \/ event_handler = "default") => renders <= 1

\* Three ticks, events in between that all reported no change, one render.
C1_Witness ==
    /\ info.render_on_change
    /\ event_handler = "custom"
    /\ ticks >= 3
    /\ renders = 1
    /\ handler_calls >= 1
    /\ ~changed_since_render
    /\ IsTick(last_event) /\ ~last_tick.rendered

\* C2 (as claimed): with render_on_change enabled, a change reported for
\* an event between two ticks makes the next tick render.
C2_ChangeRendersOnNextTick ==
    (Started /\ info.render_on_change /\ IsTick(last_event)
        /\ last_tick.changed_before) => last_tick.rendered

\* C3 (as claimed): with render_on_change enabled, once a handler call
\* since the last render has returned true, the pending-render flag is
\* true until the next render.
C3_PendingFlagIsSticky ==
    (Started /\ info.render_on_change /\ changed_since_render) => should_render

\* C4: with render_on_change disabled the flag is true at every tick and
\* every tick runs the render callback exactly once.
C4_EveryTickRenders ==
    (Started /\ ~info.render_on_change) =>
        /\ should_render
        /\ renders = ticks
        /\ IsTick(last_event) =>
              /\ last_tick.rendered
              /\ Cardinality({i \in DOMAIN last_ops : last_ops[i] = "callback"}) = 1

\* A second tick that rendered although the events before it all
\* reported no change.
C4_Witness ==
    /\ ~info.render_on_change
    /\ event_handler = "custom"
    /\ ticks >= 2
    /\ handler_calls >= 1
    /\ ~changed_since_render
    /\ FrameJustRendered /\ ~last_tick.changed_before

C6_NoCallbackAfterClose ==
    closed => (control_flow = Exit /\ calls_after_close = 0)

\* C7 (as claimed): after a Resized event the render callback is given an
\* image of the reported size.
C7_CallbackSeesReportedSize ==
    rendered_since_resize =>
        <<callback_saw.width, callback_saw.height>> = reported_size

\* C8: the State a render callback is given is the result of the handler
\* applied, in delivery order, to every event delivered before that tick,
\* and the frame it paints shows that State.
C8_StateReflectsDeliveredEvents ==
    /\ renders >= 1 =>
          callback_saw.state =
              HandlerFold(event_handler, <<>>, Routed(callback_saw.delivered))
    /\ FrameJustRendered =>
          /\ callback_saw.delivered = delivered
          /\ \A i \in DOMAIN image.pixels :
                image.pixels[i] = ColorOf(HandlerFold(event_handler, <<>>, Routed(delivered)))

\* A frame rendered with two handled events in State.
C8_Witness ==
    /\ FrameJustRendered
    /\ renders >= 2
    /\ event_handler = "custom"
    /\ Len(callback_saw.state) >= 2

\* C9: a rendering tick runs the callback, then the upload, then the
\* presentation, with no handler call among them, and what it presents is
\* the image as the callback of this same tick left it; a handler call is
\* the only thing its closure call does.
C9_PresentAfterCallback ==
    /\ FrameJustRendered =>
          /\ SubSeq(last_ops, 1, 3) = <<"callback", "write", "finish">>
          /\ \A i \in DOMAIN last_ops : last_ops[i] # "handler"
          /\ texture.width = image.width /\ texture.height = image.height
          /\ texture.data = image.pixels
          /\ screen = image.pixels
          /\ \A i \in DOMAIN screen : screen[i] = ColorOf(callback_saw.state)
    /\ (~IsTick(last_event)) =>
          \A i \in DOMAIN last_ops : last_ops[i] = "handler"

\* A second frame presented whose colour differs from the first frame's.
C9_Witness ==
    /\ FrameJustRendered
    /\ renders >= 2
    /\ Len(callback_saw.state) = 1
    /\ screen # <<>> /\ screen[1] = Blue

C11_DefaultHandlerIsInert ==
    (Started /\ event_handler = "default") =>
        /\ state = <<>>
        /\ handler_calls >= 1 => (handler_saw.handler = "default"
                                  /\ handler_saw.state = state)
        /\ ~changed_since_tick /\ ~changed_since_render
        /\ (info.render_on_change /\ ticks >= 1) =>
              /\ renders = 1
              /\ last_tick.rendered <=> last_tick.first

\* Three ticks and two handled events, one frame.
C11_Witness ==
    /\ event_handler = "default"
    /\ info.render_on_change
    /\ ticks >= 3
    /\ handler_calls >= 2
    /\ renders = 1

\* C12: the handler in effect is the last input() made after the last
\* state(), and the default handler if there is none; it is the handler
\* render invokes, so a handler attached before a later state() is never
\* invoked; the State is the last one attached.
C12_StateResetsHandler ==
    /\ event_handler = (IF build_hist.attached = "none" THEN "default"
                        ELSE build_hist.attached)
    /\ loop = "built" => state = build_hist.state_arg
    /\ handler_calls >= 1 =>
          /\ handler_saw.handler = event_handler
          /\ build_hist.attached = "none" => handler_saw.handler = "default"

\* input(), then state(), then render: the default handler took an event.
C12_Witness ==
    /\ build_hist.discarded
    /\ build_hist.attached = "none"
    /\ build_hist.state_arg = <<NoEvent>>
    /\ handler_calls >= 1
    /\ handler_saw.handler = "default"

\* C13: the width and height given to Canvas::new are the session's width
\* and height after every builder call and throughout render, and are
\* what the handler is shown.
C13_LogicalSizeFixed ==
    /\ <<info.width, info.height>> = build_hist.new_size
    /\ handler_calls >= 1 =>
          <<handler_saw.info.width, handler_saw.info.height>> = build_hist.new_size

\* A retitled hidpi session whose image is larger than its logical size,
\* seen by the handler.
C13_Witness ==
    /\ handler_calls >= 1
    /\ info.title = "Tile"
    /\ info.hidpi /\ info.dpi = 15
    /\ build_hist.new_size = <<1, 3>>
    /\ handler_saw.info.height = 3
    /\ image.height = 4

\* C14: the DPI factor is 1.0 while the session is being built; once
\* render has opened the window it is the window's scale factor if hidpi
\* is enabled and 1.0 if not, and no later step changes it.
C14_DpiResolvedOnce ==
    [][ /\ loop' = "built" => info'.dpi = 10
        /\ loop' # "built" =>
              info'.dpi = (IF info'.hidpi THEN scale_factor' ELSE 10)
        /\ loop # "built" => (info'.dpi = info.dpi /\ info'.hidpi = info.hidpi)
      ]_vars

\* A hidpi session on a 1.5 window, two ticks into its loop.
C14_Witness ==
    /\ info.hidpi
    /\ scale_factor = 15
    /\ info.dpi = 15
    /\ ticks >= 2
    /\ handler_calls >= 1 /\ handler_saw.info.dpi = 15

\* C15: when render starts the image is recreated all black, its width
\* and height the logical ones times the DPI factor, truncated; the first
\* callback is given that image, which has the logical size if hidpi is
\* disabled.
C15_ImageAtRenderStart ==
    /\ loop = "init" =>
          /\ image.width * 10 <= info.width * info.dpi
          /\ info.width * info.dpi < (image.width + 1) * 10
          /\ image.height * 10 <= info.height * info.dpi
          /\ info.height * info.dpi < (image.height + 1) * 10
          /\ Len(image.pixels) = image.width * image.height
          /\ \A i \in DOMAIN image.pixels : image.pixels[i] = Black
          /\ texture.width = image.width /\ texture.height = image.height
    /\ renders = 1 =>
          /\ callback_saw.width * 10 <= info.width * info.dpi
          /\ info.width * info.dpi < (callback_saw.width + 1) * 10
          /\ callback_saw.height * 10 <= info.height * info.dpi
          /\ info.height * info.dpi < (callback_saw.height + 1) * 10
          /\ ~info.hidpi => <<callback_saw.width, callback_saw.height>>
                                = <<info.width, info.height>>

\* 1x3 at 1.5: the first callback was given a 1x4 image.
C15_Witness ==
    /\ renders = 1
    /\ info.dpi = 15
    /\ <<info.width, info.height>> = <<1, 3>>
    /\ <<callback_saw.width, callback_saw.height>> = <<1, 4>>

\* C16: an Image holds width * height pixels, after new, fill, writes
\* through RC, XY or the slice, and the reallocation at render start.
C16_PixelCount ==
    Len(image.pixels) = image.width * image.height

\* A 2x2 image of two colours after a write through the slice.
C16_Witness ==
    /\ image_op.op = "slice"
    /\ <<image.width, image.height>> = <<2, 2>>
    /\ ColorsOf(image) = {Black, Red}
    /\ Len(image.pixels) = 4

\* C17: Image::new(w, h) has width w, height h and w * h pixels, all
\* (0, 0, 0).
C17_NewIsBlack ==
    image_op.op = "new" =>
        /\ image.width = image_op.a
        /\ image.height = image_op.b
        /\ Len(image.pixels) = image_op.a * image_op.b
        /\ \A i \in DOMAIN image.pixels :
              image.pixels[i] = [r |-> 0, g |-> 0, b |-> 0]

\* A 1x2 image fresh from new.
C17_Witness ==
    /\ image_op.op = "new"
    /\ <<image_op.a, image_op.b>> = <<1, 2>>
    /\ image_op.bw = 0
    /\ Len(image.pixels) = 2

\* C18 (as claimed): a write through RC(row, col) with row < h and
\* col < w is read back through XY(col, h - 1 - row).
C18_RowFlip ==
    (image_op.op = "rc" /\ image_op.a < image.height
        /\ image_op.b < image.width) =>
        ImageGet(image, IndexXY(image, image_op.b,
                                image.height - 1 - image_op.a)) = image_op.color

\* C18 (amended): RC(row, col) and XY(col, row) address the same element
\* for every valid row and column; a write through one is read back
\* through the other.
C18_SameRow ==
    /\ \A row \in 0..(image.height - 1), col \in 0..(image.width - 1) :
          IndexRC(image, row, col) = IndexXY(image, col, row)
    /\ (image_op.op = "rc" /\ image_op.a < image.height
          /\ image_op.b < image.width) =>
          ImageGet(image, IndexXY(image, image_op.b, image_op.a)) = image_op.color
    /\ (image_op.op = "xy" /\ image_op.b < image.height
          /\ image_op.a < image.width) =>
          ImageGet(image, IndexRC(image, image_op.b, image_op.a)) = image_op.color

\* Red written at RC(0, 1) of a 2x2 image: XY(1, 0) reads it, XY(1, 1),
\* the flipped row, does not.
C18_Witness ==
    /\ image_op.op = "rc"
    /\ <<image_op.a, image_op.b>> = <<0, 1>>
    /\ image_op.color = Red
    /\ <<image.width, image.height>> = <<2, 2>>
    /\ ImageGet(image, IndexXY(image, 1, 0)) = Red
    /\ ImageGet(image, IndexXY(image, 1, 1)) = Black

\* C19: after fill(C) every index reads C, through RC, XY and the slice,
\* whatever the image held before, also after an earlier fill; width and
\* height are as before.
C19_FillOverwrites ==
    image_op.op = "fill" =>
        /\ \A i \in DOMAIN image.pixels : image.pixels[i] = image_op.color
        /\ \A row \in 0..(image.height - 1), col \in 0..(image.width - 1) :
              /\ ImageGet(image, IndexRC(image, row, col)) = image_op.color
              /\ ImageGet(image, IndexXY(image, col, row)) = image_op.color
        /\ <<image.width, image.height>> = <<image_op.bw, image_op.bh>>

\* A 2x2 image that was all red, filled black.
C19_Witness ==
    /\ image_op.op = "fill"
    /\ image_op.color = Black
    /\ image_op.bcolors = {Red}
    /\ Len(image.pixels) = 4

\* C20 (as claimed): for all 8-bit a and b, a.blend(b, 0) is a and
\* a.blend(b, 255) is b, and the same holds channel by channel for Color.
C20_BlendEndpoints ==
    blend.done =>
        /\ ~blend.panicked
        /\ blend.factor = 0 =>
              /\ blend.value = blend.a
              /\ blend.color = BlendFrom(blend.a, blend.b)
        /\ blend.factor = 255 =>
              /\ blend.value = blend.b
              /\ blend.color = BlendTo(blend.a, blend.b)

\* C21 (as claimed): for all 8-bit a and b the blend is monotonic in the
\* factor: a call returns, and for every factor at or above its own the
\* result lies no nearer a (no lower when b >= a, no higher when b <= a).
C21_BlendMonotonic ==
    blend.done =>
        /\ ~blend.panicked
        /\ \A factor \in Factors :
              factor >= blend.factor =>
                  LET later == BlendU8(blend.a, blend.b, factor, blend.build)
                  IN  /\ ~later.panicked
                      /\ blend.b >= blend.a => blend.value <= later.value
                      /\ blend.b <= blend.a => blend.value >= later.value

\* C22 (as claimed): for all 8-bit a, b, f the blend returns
\* a + trunc((b - a) * f / 255), truncated toward zero, a value between
\* min(a, b) and max(a, b), and Color likewise channel by channel; so
\* 100.blend(200, 128) is 150 and 10, 20, 30 blended toward 0 at 128 are
\* 5, 10, 15.
C22_BlendValue ==
    blend.done =>
        LET exact(a, b) == a + Quot((b - a) * blend.factor, 255)
            lo == IF blend.a <= blend.b THEN blend.a ELSE blend.b
            hi == Max(blend.a, blend.b)
        IN  /\ ~blend.panicked
            /\ blend.value = exact(blend.a, blend.b)
            /\ lo <= blend.value /\ blend.value <= hi
            /\ blend.color = [r |-> exact(blend.a, blend.b),
                              g |-> exact(blend.b, blend.a),
                              b |-> exact(blend.a, blend.b)]
            /\ (blend.a = 100 /\ blend.b = 200 /\ blend.factor = 128)
                  => blend.value = 150
            /\ (blend.a \in {10, 20, 30} /\ blend.b = 0 /\ blend.factor = 128)
                  => blend.value = blend.a \div 2

\* C27: if the window, its graphics context or the first texture cannot
\* be created, render panics before event_loop.run: the loop is never
\* entered, no tick is taken, neither the render callback nor the handler
\* is ever invoked, and nothing is tried again.
C27_SurfaceFailureIsFatal ==
    ~surface_ok =>
        /\ loop \in {"built", "panicked"}
        /\ ticks = 0 /\ renders = 0 /\ handler_calls = 0
        /\ delivered = <<>> /\ last_event = NoEvent
        /\ control_flow = Poll
        /\ texture = NoTexture /\ screen = <<>>

\* render was called on a session with a handler attached, and panicked.
C27_Witness ==
    /\ ~surface_ok
    /\ loop = "panicked"
    /\ event_handler = "custom"
    /\ renders = 0 /\ handler_calls = 0

\* C25: with show_ms enabled a tick that rendered sets the window title
\* to the session title and the whole milliseconds its frame took; no
\* other step of the loop changes the title: not a skipped tick, not an
\* event, and with show_ms disabled no tick at all.
C25_TitleShowsFrameTime ==
    [][ LET frame == ticks' = ticks + 1 /\ renders' = renders + 1
            frame_start == IF loop = "init" THEN now
                           ELSE Max(now, control_flow.time)
        IN  /\ (frame /\ info.show_ms) =>
                  window_title' = [base |-> info.title,
                                   ms |-> (now' - frame_start) \div 1000000]
            /\ (loop # "built" /\ ~(frame /\ info.show_ms)) =>
                  window_title' = window_title
      ]_vars

\* The title still shows the 40 ms of an earlier frame after a tick that
\* render_on_change skipped.
C25_Witness ==
    /\ info.show_ms /\ info.render_on_change
    /\ IsTick(last_event) /\ ~last_tick.rendered
    /\ renders >= 1
    /\ window_title = [base |-> info.title, ms |-> 40]

\* C30 (as claimed): with render_on_change enabled a tick that is skipped
\* still moves the deadline on by one period and waits for it, and a
\* change reported after a skipped tick is rendered by the next tick.
C30_SkippedTickRearms ==
    [][ (info.render_on_change /\ ticks' = ticks + 1) =>
            /\ renders' = renders =>
                  /\ next_frame_time' = next_frame_time + Period
                  /\ control_flow' = WaitUntil(next_frame_time')
            /\ (ticks >= 1 /\ ~last_tick.rendered /\ changed_since_tick) =>
                  renders' = renders + 1
      ]_vars

\* C26: Canvas::new(w, h) gives a session of size w x h with hidpi,
\* show_ms and render_on_change off, the title "Canvas", dpi 1.0, the unit
\* State and the default handler; rendered as it is, it keeps all of that
\* and runs the render callback on every tick.
C26_NewDefaults ==
    ~build_hist.configured =>
        /\ info = [width |-> build_hist.new_size[1],
                   height |-> build_hist.new_size[2],
                   hidpi |-> FALSE, dpi |-> 10, title |-> "Canvas",
                   show_ms |-> FALSE, render_on_change |-> FALSE]
        /\ state = <<>>
        /\ event_handler = "default"
        /\ renders = ticks
        /\ Started => should_render
        /\ IsTick(last_event) => last_tick.rendered

\* A session rendered straight after new: two ticks and an event between
\* them, two frames.
C26_Witness ==
    /\ ~build_hist.configured
    /\ ticks = 2 /\ renders = 2
    /\ handler_calls = 1
    /\ IsTick(last_event)

\* C28: title, hidpi, show_ms and render_on_change each give back the
\* session with their own field set to the argument and nothing else
\* changed, input the session with only the handler replaced; so two
\* setters of different fields give the same session in either order, and
\* of two calls of one setter the later decides.
C28_SettersChangeOwnField ==
    [][ loop' = "built" =>
          LET call == build_hist'.last_call
              before == Self
              after == [info |-> info', image |-> image', state |-> state',
                        event_handler |-> event_handler']
          IN  /\ call.op = "title" =>
                    after = [before EXCEPT !.info.title = call.text]
              /\ call.op = "hidpi" =>
                    after = [before EXCEPT !.info.hidpi = call.flag]
              /\ call.op = "show_ms" =>
                    after = [before EXCEPT !.info.show_ms = call.flag]
              /\ call.op = "render_on_change" =>
                    after = [before EXCEPT !.info.render_on_change = call.flag]
              /\ call.op = "input" =>
                    after = [before EXCEPT !.event_handler = call.text]
              /\ \A t \in Titles, d \in BOOLEAN, e \in BOOLEAN :
                    /\ SetHidpi(SetTitle(before, t), e)
                          = SetTitle(SetHidpi(before, e), t)
                    /\ SetShowMs(SetTitle(before, t), e)
                          = SetTitle(SetShowMs(before, e), t)
                    /\ SetRenderOnChange(SetTitle(before, t), e)
                          = SetTitle(SetRenderOnChange(before, e), t)
                    /\ SetShowMs(SetHidpi(before, d), e)
                          = SetHidpi(SetShowMs(before, e), d)
                    /\ SetRenderOnChange(SetHidpi(before, d), e)
                          = SetHidpi(SetRenderOnChange(before, e), d)
                    /\ SetRenderOnChange(SetShowMs(before, d), e)
                          = SetShowMs(SetRenderOnChange(before, e), d)
                    /\ SetHidpi(SetHidpi(before, d), e) = SetHidpi(before, e)
                    /\ SetShowMs(SetShowMs(before, d), e) = SetShowMs(before, e)
                    /\ SetRenderOnChange(SetRenderOnChange(before, d), e)
                          = SetRenderOnChange(before, e)
                    /\ \A u \in Titles :
                          SetTitle(SetTitle(before, u), t) = SetTitle(before, t)
      ]_vars

\* A session with hidpi and show_ms on, a State and a handler attached,
\* just given a new title: everything set before is still there.
C28_Witness ==
    /\ loop = "built"
    /\ build_hist.last_call = BuilderCall("title", "Tile", FALSE)
    /\ info.title = "Tile"
    /\ info.hidpi /\ info.show_ms /\ ~info.render_on_change
    /\ state = <<NoEvent>>
    /\ event_handler = "custom"

\* C23 (as claimed): a pointer move at (px, py), with window height H and
\* DPI factor d, sets x to round(px * d) and y to round((H - py) * d), and
\* the virtual coordinates to (px, py).
C23_PhysicalRounded ==
    (handler_saw.handler = "mouse" /\ last_event.kind = "CursorMoved") =>
        /\ state.x = RoundTenths(last_event.w * info.dpi)
        /\ state.y = RoundTenths((info.height - last_event.h) * info.dpi)
        /\ state.virtual_x = last_event.w
        /\ state.virtual_y = last_event.h

\* C23 (amended): a pointer move at (px, py) sets x to px * d and y to
\* (H - py) * d, each with its fraction dropped (toward zero), H being the
\* session's logical height, and the virtual coordinates to (px, py).
C23_PhysicalTruncated ==
    (handler_saw.handler = "mouse" /\ last_event.kind = "CursorMoved") =>
        LET px == last_event.w
            py == last_event.h
            xd == px * info.dpi
            yd == (info.height - py) * info.dpi
        IN  /\ state.x * 10 <= xd /\ xd < (state.x + 1) * 10
            /\ IF yd >= 0
               THEN state.y * 10 <= yd /\ yd < (state.y + 1) * 10
               ELSE (state.y - 1) * 10 < yd /\ yd <= state.y * 10
            /\ state.virtual_x = px
            /\ state.virtual_y = py

\* At 1.5, a move to (1, 4) in a session 3 high: x is 1 (from 1.5) and y
\* is -1 (from -1.5); rounding would give 2 and -2.
C23_Witness ==
    /\ handler_saw.handler = "mouse"
    /\ last_event = CursorMovedTo(1, 4)
    /\ info.dpi = 15 /\ info.height = 3
    /\ state = [x |-> 1, y |-> -1, virtual_x |-> 1, virtual_y |-> 4]

\* C24 (as claimed): the bundled mouse handler returns true for every
\* pointer move it is given and false for every other event.
C24_MouseReportsChange ==
    handler_saw.handler = "mouse" =>
        mouse_returned = (IF last_event.kind = "CursorMoved" THEN "true"
                          ELSE "false")

\* C29: handle_input leaves the four MouseState fields as they were for
\* an event that is not a pointer move, and the session info as it was
\* for every event; after any events the fields are what the most recent
\* pointer move alone makes them, and zero if there was none.
C29_OnlyLastMoveCounts ==
    handler_saw.handler = "mouse" =>
        LET moves == SelectSeq(delivered, LAMBDA e : e.kind = "CursorMoved")
        IN  /\ info = handler_saw.info
            /\ last_event.kind # "CursorMoved" => state = handler_saw.state
            /\ moves = <<>> => state = MouseStateNew
            /\ moves # <<>> =>
                  /\ state.virtual_x = moves[Len(moves)].w
                  /\ state.virtual_y = moves[Len(moves)].h
                  /\ state = MouseHandleInput(info, MouseStateNew,
                                              moves[Len(moves)]).mouse

\* Two pointer moves and then a resize: the state is that of the second
\* move.
C29_Witness ==
    /\ handler_saw.handler = "mouse"
    /\ Len(delivered) = 3
    /\ delivered[1] = CursorMovedTo(3, 0)
    /\ delivered[2] = CursorMovedTo(1, 1)
    /\ delivered[3].kind = "Resized"
    /\ state.virtual_x = 1 /\ state.virtual_y = 1
    /\ state.x = 1 /\ state.y = 3
    /\ info.dpi = 15

\* C31: whenever a frame is uploaded the texture has the image's width
\* and height and takes all of its pixels; if the callback left an image
\* of another size than it was given, the texture was recreated at that
\* size and the window asked to take it, before the upload of that frame.
C31_TextureMatchesImage ==
    /\ Started =>
          /\ texture.width = image.width
          /\ texture.height = image.height
    /\ FrameJustRendered =>
          /\ Len(texture.data) = texture.width * texture.height
          /\ texture.data = image.pixels
          /\ <<image.width, image.height>>
                # <<callback_saw.width, callback_saw.height>> =>
                inner_size = <<image.width, image.height>>

\* The callback was given a 1x3 image and left a 1x1 image: the frame was
\* uploaded to a 1x1 texture and the window asked to be 1x1.
C31_Witness ==
    /\ FrameJustRendered
    /\ <<callback_saw.width, callback_saw.height>> = <<1, 3>>
    /\ <<image.width, image.height>> = <<1, 1>>
    /\ texture = [width |-> 1, height |-> 1, data |-> image.pixels]
    /\ inner_size = <<1, 1>>

\* C32 (as claimed): for all 8-bit a, b and f the difference, the product,
\* the quotient and the sum of the integer blend all fit in 16 signed
\* bits, the sum lies in 0..255, and so no blend and no Color * u8 fails
\* or loses bits.
C32_BlendFitsI16 ==
    blend.done =>
        LET steps == BlendSteps(blend.a, blend.b, blend.factor)
        IN  /\ FitsI16(steps.diff)
            /\ FitsI16(steps.product)
            /\ FitsI16(steps.quotient)
            /\ FitsI16(steps.sum)
            /\ steps.sum \in 0..255
            /\ blend.value = steps.sum
            /\ ~blend.panicked
            /\ ~ColorMulU8(BlendTo(blend.a, blend.b), blend.factor,
                           blend.build).panicked

====
